---- MODULE Spec2Model ----
(***************************************************************************)
(* Model of the byte_endian crate (src/src/lib.rs): the Endian capability  *)
(* implemented for u8, u16, u32, u64, u128 and usize, and the BigEndian<T> *)
(* and LittleEndian<T> wrapper types.                                      *)
(*                                                                         *)
(* An unsigned integer of n bytes is represented by its radix-256 numeral: *)
(* a sequence of n bytes, most significant byte first.  u128 does not fit  *)
(* a TLC integer, and every operation of the crate is a permutation of the *)
(* bytes of the numeral, so nothing is lost.  The bytes a value occupies   *)
(* in memory are a separate notion (ToMem / FromMem) that depends on the   *)
(* target's byte order.                                                    *)
(***************************************************************************)
EXTENDS Integers, Sequences, FiniteSets, TLC

VARIABLES
    target_endian,  \* cfg(target_endian): "little" or "big"
    T,              \* the integer type the operations are instantiated at
    size,           \* size_of::<T>() in bytes on the target
    v,              \* the native value handed to the crate
    first,          \* Endian client: <<>> or <<[op, arg, ret]>>, the first call
    second,         \* Endian client: <<>> or <<[op, arg, ret]>>, the second call
    be,             \* wrapper clients: <<>> or <<w>>, w = BigEndian::new(v)
    be_f,           \* wrapper clients: <<>> or <<w>>, w: BigEndian<T> = u.into()
    le,             \* wrapper clients: <<>> or <<w>>, w = LittleEndian::new(v)
    le_f,           \* wrapper clients: <<>> or <<w>>, w: LittleEndian<T> = u.into()
    last,           \* accessor client: [slot, op] of the last accessor call
    ret,            \* accessor client: <<>> or <<r>>, what the last accessor returned
    u,              \* the native value the From conversions are given
    eq_be,          \* equality client: <<>> or <<r>>, r = (be == be_f)
    eq_le,          \* equality client: <<>> or <<r>>, r = (le == le_f)
    packet,         \* packed client: <<>> or <<mem>>, the bytes of Packet(v.into(), v.into())
    reads           \* packed client: what each read of a packet field returned

vars == <<target_endian, T, size, v, first, second, be, be_f, le, le_f, last, ret,
          u, eq_be, eq_le, packet, reads>>

----
(* Bounds of the model *)

\* a value has at most this many non-zero bytes
MaxNonZero == 2

\* the non-zero bytes values are built from (0x01 and 0xFE)
NonZeroBytes == {1, 254}

RECURSIVE ValuesOf(_, _)
\* the numerals of n bytes with at most k non-zero bytes
ValuesOf(n, k) ==
    IF n = 0 THEN {<< >>}
    ELSE {<<0>> \o s : s \in ValuesOf(n - 1, k)}
         \cup (IF k = 0 THEN {}
               ELSE {<<x>> \o s : x \in NonZeroBytes, s \in ValuesOf(n - 1, k - 1)})

Values(n) == ValuesOf(n, MaxNonZero)

\* byte reversal of a numeral, written out independently of the model's swap_bytes
Reversed(s) == [i \in 1..Len(s) |-> s[Len(s) + 1 - i]]

----
(* The target and the integer types: impl_traits!(u8, u16, u32, u64, u128, usize => ..) *)

Types == {"u8", "u16", "u32", "u64", "u128", "usize"}

\* size_of::<t>() in bytes; usize is 2, 4 or 8 bytes with target_pointer_width
SizesOf(t) ==
    CASE t = "u8" -> {1}
      [] t = "u16" -> {2}
      [] t = "u32" -> {4}
      [] t = "u64" -> {8}
      [] t = "u128" -> {16}
      [] t = "usize" -> {2, 4, 8}

\* mutant of swap_bytes: rotates the bytes by one place instead of reversing them
swap_bytes_Rotate(x) == [i \in 1..Len(x) |-> x[(i % Len(x)) + 1]]

\* <$endian_type>::swap_bytes: reverses the byte order of the integer
swap_bytes(x) == [i \in 1..Len(x) |-> x[Len(x) - i + 1]]

\* the bytes the integer x occupies in memory, lowest address first
ToMem(x) == IF target_endian = "little" THEN [i \in 1..Len(x) |-> x[Len(x) - i + 1]] ELSE x

\* the integer whose bytes in memory, lowest address first, are m
FromMem(m) == IF target_endian = "little" THEN [i \in 1..Len(m) |-> m[Len(m) - i + 1]] ELSE m

----
(* impl Endian<$endian_type> for $endian_type *)

\* mutant of to_be: never swaps
Endian_to_be_NoSwap(self) == self

Endian_to_be(self) == IF target_endian = "big" THEN self ELSE swap_bytes(self)

\* mutant of to_le: swaps on every target
Endian_to_le_AlwaysSwap(self) == swap_bytes(self)

Endian_to_le(self) == IF target_endian = "little" THEN self ELSE swap_bytes(self)

\* mutant of from_be: never swaps
Endian_from_be_NoSwap(value) == value

Endian_from_be(value) == IF target_endian = "big" THEN value ELSE swap_bytes(value)

Endian_from_le(value) == IF target_endian = "little" THEN value ELSE swap_bytes(value)

EndianOps == {"to_be", "to_le", "from_be", "from_le"}

----
(* pub struct BigEndian<T: Endian<T>>(T): a tuple struct of one field, <<bits>> *)

BigEndian_new(value) == <<Endian_to_be(value)>>

\* mutant of BigEndian::to_native: converts from the other byte order
BigEndian_to_native_FromLe(self) == Endian_from_le(self[1])

BigEndian_to_native(self) == Endian_from_be(self[1])

\* mutant of BigEndian::to_bits: returns the native value
BigEndian_to_bits_Native(self) == Endian_from_be(self[1])

BigEndian_to_bits(self) == self[1]

\* mutant of From<T> for BigEndian<T>: stores the native value as it is
BigEndian_from_Raw(value) == <<value>>

\* impl<T: Endian<T>> From<T> for BigEndian<T>
BigEndian_from(value) == BigEndian_new(value)

\* impl From<BigEndian<$endian_type>> for $endian_type
T_from_BigEndian(value) == BigEndian_to_native(value)

\* #[derive(PartialEq)]: field-wise comparison of the single field
BigEndian_eq(x, y) == x[1] = y[1]

\* mutant of the BigEndian layout: a byte of padding after the field
BigEndian_layout_Padded(w) == ToMem(w[1]) \o <<0>>

\* #[repr(transparent)]: the wrapper's bytes in memory are those of its field
BigEndian_layout(w) == ToMem(w[1])

----
(* pub struct LittleEndian<T: Endian<T>>(T) *)

LittleEndian_new(value) == <<Endian_to_le(value)>>

LittleEndian_to_native(self) == Endian_from_le(self[1])

LittleEndian_to_bits(self) == self[1]

\* impl<T: Endian<T>> From<T> for LittleEndian<T>
LittleEndian_from(value) == LittleEndian_new(value)

\* impl From<LittleEndian<$endian_type>> for $endian_type
T_from_LittleEndian(value) == LittleEndian_to_native(value)

\* mutant of LittleEndian ==: compares the least significant byte only
LittleEndian_eq_LowByte(x, y) == x[1][Len(x[1])] = y[1][Len(y[1])]

\* #[derive(PartialEq)]
LittleEndian_eq(x, y) == x[1] = y[1]

\* #[repr(transparent)]
LittleEndian_layout(w) == ToMem(w[1])

----
(* Initial states *)

NoCall == [slot |-> "", op |-> ""]

PacketReads == {"0.to_native", "0.to_bits", "1.to_native", "1.to_bits"}

InitTarget ==
    /\ target_endian \in {"little", "big"}
    /\ T \in Types
    /\ size \in SizesOf(T)
    /\ v \in Values(size)

IdleEndian == first = << >> /\ second = << >>

IdleWrappers == be = << >> /\ be_f = << >> /\ le = << >> /\ le_f = << >>

IdleAccessors == last = NoCall /\ ret = << >>

IdleEq == eq_be = << >> /\ eq_le = << >>

IdlePacket == packet = << >> /\ reads = [r \in PacketReads |-> << >>]

----
(* A client of the Endian capability: one call on v, then a second call on *)
(* v or on what the first call returned.                                   *)

EndianCall(op, arg) ==
    [op |-> op, arg |-> arg,
     ret |-> CASE op = "to_be" -> Endian_to_be(arg)
               [] op = "to_le" -> Endian_to_le(arg)
               [] op = "from_be" -> Endian_from_be(arg)
               [] op = "from_le" -> Endian_from_le(arg)]

FirstCall(op) ==
    /\ first = << >>
    /\ first' = <<EndianCall(op, v)>>
    /\ UNCHANGED second

SecondCall(op) ==
    /\ first # << >>
    /\ second = << >>
    /\ \E arg \in {v, first[1].ret} : second' = <<EndianCall(op, arg)>>
    /\ UNCHANGED first

EndianFrame ==
    UNCHANGED <<target_endian, T, size, v, be, be_f, le, le_f, last, ret, u, eq_be,
                eq_le, packet, reads>>

Call_to_be == (FirstCall("to_be") \/ SecondCall("to_be")) /\ EndianFrame

Call_to_le == (FirstCall("to_le") \/ SecondCall("to_le")) /\ EndianFrame

Call_from_be == (FirstCall("from_be") \/ SecondCall("from_be")) /\ EndianFrame

Call_from_le == (FirstCall("from_le") \/ SecondCall("from_le")) /\ EndianFrame

InitEndian ==
    /\ InitTarget
    /\ u = v
    /\ IdleEndian
    /\ IdleWrappers
    /\ IdleAccessors
    /\ IdleEq
    /\ IdlePacket

NextEndian == Call_to_be \/ Call_to_le \/ Call_from_be \/ Call_from_le

SpecEndian == InitEndian /\ [][NextEndian]_vars

\* the second call was op2 applied to what the first call, op1, returned
Composed(op1, op2) ==
    /\ first # << >>
    /\ second # << >>
    /\ first[1].op = op1
    /\ second[1].op = op2
    /\ second[1].arg = first[1].ret

\* the two calls were op1 and op2, both applied to v
SameInput(op1, op2) ==
    /\ first # << >>
    /\ second # << >>
    /\ first[1].op = op1
    /\ second[1].op = op2
    /\ second[1].arg = first[1].arg

\* C5: to_be and from_be undo each other in both orders, and so do to_le and
\* from_le: applying one to what the other returned gives back the argument of
\* the first, at every width and on either target byte order.
C5_MutualInverses ==
    \A p \in {<<"to_be", "from_be">>, <<"from_be", "to_be">>,
              <<"to_le", "from_le">>, <<"from_le", "to_le">>} :
        Composed(p[1], p[2]) => second[1].ret = first[1].arg /\ first[1].arg = v

C5_Witness ==
    /\ Composed("to_be", "from_be")
    /\ target_endian = "little"
    /\ size = 16
    /\ v # Reversed(v)
    /\ first[1].ret # v
    /\ second[1].ret = v

\* C6 as claimed: to_be(x) = to_le(x) exactly when the type is one byte wide.
C6_Original ==
    SameInput("to_be", "to_le") => (first[1].ret = second[1].ret <=> size = 1)

\* C6 amended: to_be(x) = to_le(x) exactly when x is its own byte reversal,
\* which every value is at width 8 and which at a wider width only the
\* byte-palindromic values (0 among them) are.
C6_EqualIffPalindrome ==
    SameInput("to_be", "to_le") =>
        /\ first[1].ret = second[1].ret <=> v = Reversed(v)
        /\ size = 1 => first[1].ret = second[1].ret

C6_Witness ==
    /\ SameInput("to_be", "to_le")
    /\ size = 4
    /\ v = Reversed(v)
    /\ \E i \in 1..size : v[i] # 0
    /\ first[1].ret = second[1].ret

\* C7: the big-endian and the little-endian form of one value are byte
\* reversals of each other: to_be(x) is the byte-reversed to_le(x), and so
\* BigEndian::new(x).to_bits() is the byte-reversed LittleEndian::new(x).to_bits().
C7_ByteReversal ==
    SameInput("to_be", "to_le") =>
        /\ first[1].ret = Reversed(second[1].ret)
        /\ BigEndian_to_bits(BigEndian_new(v))
             = Reversed(LittleEndian_to_bits(LittleEndian_new(v)))

C7_Witness ==
    /\ SameInput("to_be", "to_le")
    /\ target_endian = "big"
    /\ size = 8
    /\ v # Reversed(v)
    /\ first[1].ret = v
    /\ second[1].ret = Reversed(v)

----
(* A client of the wrappers: it builds each wrapper with new(v) and with   *)
(* u.into(), and calls the accessors on the wrappers it has built.  The    *)
(* accessors take self by value: they work on a copy, and the client's     *)
(* wrapper is left as it was.                                              *)

WrapperFrame == UNCHANGED <<target_endian, T, size, v, first, second, u, packet, reads>>

BigEndian_New ==
    /\ be = << >>
    /\ be' = <<BigEndian_new(v)>>
    /\ UNCHANGED <<be_f, le, le_f, last, ret, eq_be, eq_le>>
    /\ WrapperFrame

BigEndian_From ==
    /\ be_f = << >>
    /\ be_f' = <<BigEndian_from(u)>>
    /\ UNCHANGED <<be, le, le_f, last, ret, eq_be, eq_le>>
    /\ WrapperFrame

LittleEndian_New ==
    /\ le = << >>
    /\ le' = <<LittleEndian_new(v)>>
    /\ UNCHANGED <<be, be_f, le_f, last, ret, eq_be, eq_le>>
    /\ WrapperFrame

LittleEndian_From ==
    /\ le_f = << >>
    /\ le_f' = <<LittleEndian_from(u)>>
    /\ UNCHANGED <<be, be_f, le, last, ret, eq_be, eq_le>>
    /\ WrapperFrame

\* the BigEndian wrappers the client holds, by slot name
BigEndianSlots == [s \in {"be", "be_f"} |-> IF s = "be" THEN be ELSE be_f]

\* the LittleEndian wrappers the client holds, by slot name
LittleEndianSlots == [s \in {"le", "le_f"} |-> IF s = "le" THEN le ELSE le_f]

AccessorFrame == UNCHANGED <<be, be_f, le, le_f, eq_be, eq_le>> /\ WrapperFrame

\* mutant of the to_native call: converts the client's wrapper in place
BigEndian_ToNative_InPlace ==
    /\ \E s \in DOMAIN BigEndianSlots :
        /\ BigEndianSlots[s] # << >>
        /\ last' = [slot |-> s, op |-> "to_native"]
        /\ ret' = <<BigEndian_to_native(BigEndianSlots[s][1])>>
        /\ be' = IF s = "be" THEN <<ret'>> ELSE be
        /\ be_f' = IF s = "be_f" THEN <<ret'>> ELSE be_f
    /\ UNCHANGED <<le, le_f, eq_be, eq_le>>
    /\ WrapperFrame

BigEndian_ToNative ==
    /\ \E s \in DOMAIN BigEndianSlots :
        /\ BigEndianSlots[s] # << >>
        /\ last' = [slot |-> s, op |-> "to_native"]
        /\ ret' = <<BigEndian_to_native(BigEndianSlots[s][1])>>
    /\ AccessorFrame

BigEndian_ToBits ==
    /\ \E s \in DOMAIN BigEndianSlots :
        /\ BigEndianSlots[s] # << >>
        /\ last' = [slot |-> s, op |-> "to_bits"]
        /\ ret' = <<BigEndian_to_bits(BigEndianSlots[s][1])>>
    /\ AccessorFrame

BigEndian_Into ==
    /\ \E s \in DOMAIN BigEndianSlots :
        /\ BigEndianSlots[s] # << >>
        /\ last' = [slot |-> s, op |-> "into"]
        /\ ret' = <<T_from_BigEndian(BigEndianSlots[s][1])>>
    /\ AccessorFrame

LittleEndian_ToNative ==
    /\ \E s \in DOMAIN LittleEndianSlots :
        /\ LittleEndianSlots[s] # << >>
        /\ last' = [slot |-> s, op |-> "to_native"]
        /\ ret' = <<LittleEndian_to_native(LittleEndianSlots[s][1])>>
    /\ AccessorFrame

LittleEndian_ToBits ==
    /\ \E s \in DOMAIN LittleEndianSlots :
        /\ LittleEndianSlots[s] # << >>
        /\ last' = [slot |-> s, op |-> "to_bits"]
        /\ ret' = <<LittleEndian_to_bits(LittleEndianSlots[s][1])>>
    /\ AccessorFrame

LittleEndian_Into ==
    /\ \E s \in DOMAIN LittleEndianSlots :
        /\ LittleEndianSlots[s] # << >>
        /\ last' = [slot |-> s, op |-> "into"]
        /\ ret' = <<T_from_LittleEndian(LittleEndianSlots[s][1])>>
    /\ AccessorFrame

InitWrapper ==
    /\ InitTarget
    /\ u = v
    /\ IdleEndian
    /\ IdleWrappers
    /\ IdleAccessors
    /\ IdleEq
    /\ IdlePacket

NextWrapper ==
    \/ BigEndian_New
    \/ BigEndian_From
    \/ LittleEndian_New
    \/ LittleEndian_From
    \/ BigEndian_ToNative
    \/ BigEndian_ToBits
    \/ BigEndian_Into
    \/ LittleEndian_ToNative
    \/ LittleEndian_ToBits
    \/ LittleEndian_Into

SpecWrapper == InitWrapper /\ [][NextWrapper]_vars

\* the last accessor call was op on the wrapper in slot s
Called(s, op) == last = [slot |-> s, op |-> op]

\* C1: a wrapper built by new(v) gives v back from to_native(), for BigEndian
\* and for LittleEndian, at every width and on either target byte order.
C1_RoundTrip ==
    /\ Called("be", "to_native") => ret = <<v>>
    /\ Called("le", "to_native") => ret = <<v>>

C1_Witness ==
    /\ Called("be", "to_native")
    /\ target_endian = "little"
    /\ T = "u128"
    /\ v # Reversed(v)
    /\ be # <<<<v>>>>
    /\ le # << >>
    /\ ret = <<v>>

\* C2: the bytes in memory of the value BigEndian::new(v) stores are the bytes
\* of v most significant first, those of LittleEndian::new(v) are the bytes of
\* v least significant first, whatever the target's byte order.  (A value is
\* its numeral, most significant byte first, so the former is v itself.)
C2_WireBytes ==
    /\ be # << >> => BigEndian_layout(be[1]) = v
    /\ le # << >> => LittleEndian_layout(le[1]) = Reversed(v)

C2_Witness ==
    /\ be # << >>
    /\ le # << >>
    /\ T = "u32"
    /\ v = <<0, 0, 1, 254>>
    /\ BigEndian_layout(be[1]) = <<0, 0, 1, 254>>
    /\ LittleEndian_layout(le[1]) = <<254, 1, 0, 0>>

C4_Conversions ==
    /\ be # << >> /\ be_f # << >> => BigEndian_eq(be[1], be_f[1])
    /\ le # << >> /\ le_f # << >> => LittleEndian_eq(le[1], le_f[1])
    /\ Called("be_f", "into") =>
         ret = <<v>> /\ ret = <<BigEndian_to_native(be_f[1])>>
    /\ Called("le_f", "into") =>
         ret = <<v>> /\ ret = <<LittleEndian_to_native(le_f[1])>>

C4_Witness ==
    /\ Called("be_f", "into")
    /\ be # << >>
    /\ be = be_f
    /\ target_endian = "little"
    /\ size = 8
    /\ v # Reversed(v)
    /\ ret = <<v>>

\* the wrappers the client holds
Wrappers == <<be, be_f, le, le_f>>

\* C10: a wrapper's stored bits never change once it is built: no accessor
\* call changes any wrapper, every to_bits() returns the bits stored at
\* construction and every to_native() or into() returns the value the wrapper
\* was built from.
C10_Immutable ==
    /\ [][/\ be # << >> => be' = be
          /\ be_f # << >> => be_f' = be_f
          /\ le # << >> => le' = le
          /\ le_f # << >> => le_f' = le_f
          /\ last' # last => Wrappers' = Wrappers]_vars
    /\ [](\A s \in {"be", "be_f"} :
            /\ Called(s, "to_bits") => ret = <<Endian_to_be(v)>>
            /\ Called(s, "to_native") \/ Called(s, "into") => ret = <<v>>)
    /\ [](\A s \in {"le", "le_f"} :
            /\ Called(s, "to_bits") => ret = <<Endian_to_le(v)>>
            /\ Called(s, "to_native") \/ Called(s, "into") => ret = <<v>>)

\* a second accessor call on a wrapper that was already read
C10_Witness ==
    /\ Called("be", "to_bits")
    /\ be # << >> /\ be_f # << >> /\ le # << >> /\ le_f # << >>
    /\ target_endian = "little"
    /\ size = 2
    /\ v = <<1, 254>>
    /\ be = <<<<<<254, 1>>>>>>
    /\ ret = <<<<254, 1>>>>

----
(* A client that compares wrappers with ==: one built by new(v), the other *)
(* by u.into(), where u is v or a value near it.                           *)

\* v, its byte reversal, and v with another least significant byte
Near(x) == {Reversed(x)} \cup {[x EXCEPT ![Len(x)] = y] : y \in {0} \cup NonZeroBytes}

BigEndian_Compare ==
    /\ be # << >>
    /\ be_f # << >>
    /\ eq_be' = <<BigEndian_eq(be[1], be_f[1])>>
    /\ UNCHANGED <<be, be_f, le, le_f, last, ret, eq_le>>
    /\ WrapperFrame

LittleEndian_Compare ==
    /\ le # << >>
    /\ le_f # << >>
    /\ eq_le' = <<LittleEndian_eq(le[1], le_f[1])>>
    /\ UNCHANGED <<be, be_f, le, le_f, last, ret, eq_be>>
    /\ WrapperFrame

InitEq ==
    /\ InitTarget
    /\ u \in Near(v)
    /\ IdleEndian
    /\ IdleWrappers
    /\ IdleAccessors
    /\ IdleEq
    /\ IdlePacket

NextEq ==
    \/ BigEndian_New
    \/ BigEndian_From
    \/ LittleEndian_New
    \/ LittleEndian_From
    \/ BigEndian_Compare
    \/ LittleEndian_Compare

SpecEq == InitEq /\ [][NextEq]_vars

\* C8: two wrappers of one variant and width compare equal exactly when their
\* to_bits() are equal; a wrapper built by new and one built by into() from
\* the same native value compare equal.
C8_BitwiseEq ==
    /\ eq_be # << >> =>
         /\ eq_be[1] <=> BigEndian_to_bits(be[1]) = BigEndian_to_bits(be_f[1])
         /\ u = v => eq_be[1]
    /\ eq_le # << >> =>
         /\ eq_le[1] <=> LittleEndian_to_bits(le[1]) = LittleEndian_to_bits(le_f[1])
         /\ u = v => eq_le[1]

C8_Witness ==
    /\ eq_be = <<TRUE>>
    /\ eq_le = <<TRUE>>
    /\ u = v
    /\ T = "u64"
    /\ target_endian = "little"
    /\ v # Reversed(v)

----
(* #[repr(C, packed)] struct Packet(BigEndian<T>, LittleEndian<T>): the     *)
(* fields follow each other in memory with no padding.  The client builds  *)
(* Packet(v.into(), v.into()) and reads the fields through the accessors;  *)
(* a field is read by copying its bytes out of the packet.                 *)

\* size_of::<BigEndian<T>>(): #[repr(transparent)] over T
SizeOf_BigEndian == size

\* size_of::<LittleEndian<T>>(): #[repr(transparent)] over T
SizeOf_LittleEndian == size

\* the bytes of Packet(x, y)
Packet_new(x, y) == BigEndian_layout(x) \o LittleEndian_layout(y)

\* packet.0, copied out of the bytes of the packet
Packet_0(mem) == <<FromMem(SubSeq(mem, 1, SizeOf_BigEndian))>>

\* packet.1, copied out of the bytes of the packet
Packet_1(mem) ==
    <<FromMem(SubSeq(mem, SizeOf_BigEndian + 1, SizeOf_BigEndian + SizeOf_LittleEndian))>>

PacketFrame ==
    UNCHANGED <<target_endian, T, size, v, first, second, be, be_f, le, le_f, last,
                ret, u, eq_be, eq_le>>

Packet_New ==
    /\ packet = << >>
    /\ packet' = <<Packet_new(BigEndian_from(v), LittleEndian_from(v))>>
    /\ UNCHANGED reads
    /\ PacketFrame

Packet_0_ToNative ==
    /\ packet # << >>
    /\ reads' = [reads EXCEPT !["0.to_native"] =
                    <<BigEndian_to_native(Packet_0(packet[1]))>>]
    /\ UNCHANGED packet
    /\ PacketFrame

Packet_0_ToBits ==
    /\ packet # << >>
    /\ reads' = [reads EXCEPT !["0.to_bits"] =
                    <<BigEndian_to_bits(Packet_0(packet[1]))>>]
    /\ UNCHANGED packet
    /\ PacketFrame

Packet_1_ToNative ==
    /\ packet # << >>
    /\ reads' = [reads EXCEPT !["1.to_native"] =
                    <<LittleEndian_to_native(Packet_1(packet[1]))>>]
    /\ UNCHANGED packet
    /\ PacketFrame

Packet_1_ToBits ==
    /\ packet # << >>
    /\ reads' = [reads EXCEPT !["1.to_bits"] =
                    <<LittleEndian_to_bits(Packet_1(packet[1]))>>]
    /\ UNCHANGED packet
    /\ PacketFrame

InitPacket ==
    /\ InitTarget
    /\ u = v
    /\ IdleEndian
    /\ IdleWrappers
    /\ IdleAccessors
    /\ IdleEq
    /\ IdlePacket

NextPacket ==
    \/ Packet_New
    \/ Packet_0_ToNative
    \/ Packet_0_ToBits
    \/ Packet_1_ToNative
    \/ Packet_1_ToBits

SpecPacket == InitPacket /\ [][NextPacket]_vars

\* C9: a wrapper occupies as many bytes as the integer it wraps, so the packed
\* pair of a BigEndian<T> and a LittleEndian<T> occupies twice the size of T
\* (16 bytes for u64), the first field's bytes followed by the second's, and
\* reading a field through to_native() or to_bits() gives what a standalone
\* wrapper built from the same value gives.
C9_Layout ==
    packet # << >> =>
        /\ Len(packet[1]) = 2 * size
        /\ T = "u64" => Len(packet[1]) = 16
        /\ SubSeq(packet[1], 1, size) = v
        /\ SubSeq(packet[1], size + 1, 2 * size) = Reversed(v)
        /\ reads["0.to_native"] # << >> =>
             reads["0.to_native"] = <<v>>
        /\ reads["0.to_bits"] # << >> =>
             reads["0.to_bits"] = <<BigEndian_to_bits(BigEndian_new(v))>>
        /\ reads["1.to_native"] # << >> =>
             reads["1.to_native"] = <<v>>
        /\ reads["1.to_bits"] # << >> =>
             reads["1.to_bits"] = <<LittleEndian_to_bits(LittleEndian_new(v))>>

\* Packet(0xfe.into(), 0xfe.into()) at u64 on a little-endian target
C9_Witness ==
    /\ packet # << >>
    /\ T = "u64"
    /\ target_endian = "little"
    /\ v = <<0, 0, 0, 0, 0, 0, 0, 254>>
    /\ Len(packet[1]) = 16
    /\ reads = [r \in PacketReads |->
                  IF r = "0.to_bits" THEN <<<<254, 0, 0, 0, 0, 0, 0, 0>>>> ELSE <<v>>]

====
